---- MODULE Spec2Model ----
(***************************************************************************)
(* A model of the SRTP cryptographic context of srtp.go: context creation  *)
(* (session key / salt derivation), the rollover counter tracker, the      *)
(* counter block generator and the packet decryption pipeline.             *)
(*                                                                         *)
(* Representation.  A byte is a number 0..255 and a []byte a sequence of   *)
(* bytes.  A uint32 is the pair <<hi, lo>> of its two 16-bit halves        *)
(* (value = hi * 65536 + lo), because 2^32 - 1 does not fit the model      *)
(* checker's integers and the wrap of the 32-bit counter matters here.     *)
(* A uint16 is a number 0..65535.  A slice's capacity is taken to be its   *)
(* length, and a packet's Payload and Raw are separate buffers.            *)
(* crypto/aes is outside the repository: Encrypt is a keyed permutation of *)
(* 16-byte blocks standing in for AES-128.  A Go panic is the result       *)
(* "panic" of the call, with everything written before it kept.  Two calls *)
(* that race on a context (SpecRace) interleave statement by statement,    *)
(* which is among the outcomes a data race in Go can have.                 *)
(***************************************************************************)
EXTENDS Integers, Sequences, FiniteSets, TLC

VARIABLES
    c,           \* the *Context the caller holds (Nil before CreateContext succeeds)
    err,         \* the error returned by the last CreateContext call
    packet,      \* the *rtp.Packet of the last DecryptPacket call, after the call
    ret,         \* what the last DecryptPacket call did: "true", "false" or "panic"
    pre,         \* history: the context as it was when the last call started
    pin,         \* history: the packet as it was handed to the last call
    made,        \* history: the arguments of the last CreateContext call
    firstSSRC,   \* history: the SSRC of the first packet the context processed
    seqs,        \* history: the sequence numbers fed so far (SpecSeq)
    rocs,        \* history: rolloverCounter after each of them (SpecSeq)
    idx,         \* history: the true packet index of the last packet (SpecStream, SpecInOrder)
    firstEpoch,  \* history: the true epoch of the first packet processed
    ctrIn,       \* the inputs of generateCounter under study (SpecCounter)
    ctrOut,      \* the counter blocks generateCounter returned for them
    kdf,         \* history: the blocks the last CreateContext handed to block.Encrypt
    race,        \* two DecryptPacket calls in progress on c (SpecRace)
    shadow,      \* a second context, fed the packets of c's stream alone (SpecFilter)
    used         \* history: the counter block used for each packet index (SpecOnce)

vars == <<c, err, packet, ret, pre, pin, made, firstSSRC, seqs, rocs, idx, firstEpoch,
          ctrIn, ctrOut, kdf, race, shadow, used>>

-----------------------------------------------------------------------------
(* Program constants, srtp.go lines 12-21 and 181.                         *)

labelEncryption == 0
labelSalt == 2
keyLen == 16
saltLen == 14
maxROCDisorder == 100
maxSequenceNumber == 65535
tagLen == 10
BlockSize == 16

\* a nil pointer (context, packet, block); the nil error; "not called yet"
Nil == [nil |-> TRUE]
NoErr == "nil"
NoCall == "none"
None32 == <<>>

-----------------------------------------------------------------------------
(* Bytes and fixed-width integers.                                         *)

RECURSIVE XorBits(_, _, _)
XorBits(a, b, n) ==
    IF n = 0 THEN 0
    ELSE (((a % 2) + (b % 2)) % 2) + 2 * XorBits(a \div 2, b \div 2, n - 1)

Byte == 0..255

\* a ^ b on bytes, tabulated
XorTable == [a \in Byte |-> [b \in Byte |-> XorBits(a, b, 8)]]
Xor8(a, b) == XorTable[a][b]

RECURSIVE OrBits(_, _, _)
OrBits(a, b, n) ==
    IF n = 0 THEN 0
    ELSE (IF (a % 2) + (b % 2) > 0 THEN 1 ELSE 0) + 2 * OrBits(a \div 2, b \div 2, n - 1)

\* a | b on bytes
Or8(a, b) == OrBits(a, b, 8)

Zero32 == <<0, 0>>

\* x++ on a uint32 (wraps from 2^32 - 1 to 0)
Inc32(x) ==
    IF x[2] = 65535 THEN <<(x[1] + 1) % 65536, 0>> ELSE <<x[1], x[2] + 1>>

\* x-- on a uint32 (wraps from 0 to 2^32 - 1)
Dec32(x) ==
    IF x[2] = 0 THEN <<(x[1] + 65535) % 65536, 65535>> ELSE <<x[1], x[2] - 1>>

\* uint32(v) << 16 for a uint16 v
Shl16(v) == <<v, 0>>

\* binary.BigEndian.PutUint32: the four bytes of a uint32, most significant first
PutUint32(x) == <<x[1] \div 256, x[1] % 256, x[2] \div 256, x[2] % 256>>

\* the []byte with the elements of f, as a sequence value
AsBytes(f) == f \o <<>>

Zeros(n) == AsBytes([i \in 1..n |-> 0])

-----------------------------------------------------------------------------
(* The block cipher (crypto/aes, crypto/cipher).                           *)

\* aes.NewCipher: a keyed block, or an error for a key that is not 16, 24 or 32 bytes
NewCipher(key) ==
    IF Len(key) \in {16, 24, 32} THEN [key |-> key, err |-> NoErr]
    ELSE [key |-> <<>>, err |-> "aes.KeySizeError"]

\* block.Encrypt(buf, buf): the first 16 bytes of buf are replaced by their image
\* under a keyed permutation of the 16-byte blocks, the rest of buf is left alone
Encrypt(key, buf) ==
    AsBytes([i \in 1..Len(buf) |->
        IF i > BlockSize THEN buf[i]
        ELSE LET j == (i % BlockSize) + 1
             IN  (Xor8(buf[j], key[j]) * 5 + 17) % 256])

\* the big-endian increment of the counter block that CTR mode applies per block
RECURSIVE IncBlockAt(_, _)
IncBlockAt(b, i) ==
    IF i = 0 THEN b
    ELSE IF b[i] = 255 THEN IncBlockAt([b EXCEPT ![i] = 0], i - 1)
    ELSE [b EXCEPT ![i] = b[i] + 1]

RECURSIVE AddBlock(_, _)
AddBlock(b, n) == IF n = 0 THEN b ELSE AddBlock(IncBlockAt(b, BlockSize), n - 1)

\* cipher.NewCTR(block, iv).XORKeyStream(data, data)
XORKeyStream(block, iv, data) ==
    LET nBlocks == (Len(data) + BlockSize - 1) \div BlockSize
        ks == AsBytes([k \in 1..nBlocks |-> Encrypt(block.key, AddBlock(iv, k - 1))])
    IN  AsBytes([i \in 1..Len(data) |->
            Xor8(data[i], ks[((i - 1) \div BlockSize) + 1][((i - 1) % BlockSize) + 1])])

-----------------------------------------------------------------------------
(* Context creation: srtp.go lines 47-122.                                 *)

\* the loop of lines 84-86 / 109-111: XOR the last 7 bytes of b with
\* {label, 0, 0, 0, 0, 0, 0}, aligned at the end of b
XorLabel(b, label) ==
    LET labelAndIndexOverKdr == <<label, 0, 0, 0, 0, 0, 0>>
        n == Len(labelAndIndexOverKdr)
    IN  AsBytes([j \in 1..Len(b) |->
            IF j > Len(b) - n
            THEN Xor8(b[j], labelAndIndexOverKdr[j - (Len(b) - n)])
            ELSE b[j]])

\* DerivationInput with the two null octets put in front of the master salt
DerivationInputPadLeft(masterSalt, label) == <<0, 0>> \o XorLabel(masterSalt, label)

\* the block handed to block.Encrypt by generateSessionKey and generateSessionSalt:
\* the labelled copy of the master salt, then two null octets appended
DerivationInput(masterSalt, label) == XorLabel(masterSalt, label) \o <<0, 0>>

\* c.generateSessionKey(): the session key and the error
generateSessionKey(ctx) ==
    LET block == NewCipher(ctx.masterKey)
    IN  IF block.err # NoErr THEN [val |-> <<>>, err |-> block.err]
        ELSE [val |-> Encrypt(block.key, DerivationInput(ctx.masterSalt, labelEncryption)),
              err |-> NoErr]

\* c.generateSessionSalt(): the session salt (the first saltLen bytes) and the error
generateSessionSalt(ctx) ==
    LET block == NewCipher(ctx.masterKey)
    IN  IF block.err # NoErr THEN [val |-> <<>>, err |-> block.err]
        ELSE [val |-> SubSeq(Encrypt(block.key, DerivationInput(ctx.masterSalt, labelSalt)),
                             1, saltLen),
              err |-> NoErr]

\* the zero Context of line 54 with the two master secrets set
NewContext(masterKey, masterSalt) ==
    [ssrc |-> Zero32,
     rolloverCounter |-> Zero32,
     rolloverHasProcessed |-> FALSE,
     lastSequenceNumber |-> 0,
     masterKey |-> masterKey,
     masterSalt |-> masterSalt,
     sessionKey |-> <<>>,
     sessionSalt |-> <<>>,
     block |-> Nil]

\* CheckLengths with the key test written as "shorter than keyLen"
CheckLengthsShortKey(masterKey, masterSalt) ==
    IF Len(masterKey) < keyLen THEN "SRTP Master Key must be len"
    ELSE IF Len(masterSalt) # saltLen THEN "SRTP Salt must be len"
    ELSE NoErr

\* the two length checks of lines 48-52: Nil when both pass, else the error
CheckLengths(masterKey, masterSalt) ==
    IF Len(masterKey) # keyLen THEN "SRTP Master Key must be len"
    ELSE IF Len(masterSalt) # saltLen THEN "SRTP Salt must be len"
    ELSE NoErr

\* CreateContext(masterKey, masterSalt, profile): the pair (c, err) it returns
CreateContextOn(masterKey, masterSalt) ==
    LET bad == CheckLengths(masterKey, masterSalt)
        c0 == NewContext(masterKey, masterSalt)
        sk == generateSessionKey(c0)
        c1 == [c0 EXCEPT !.sessionKey = sk.val]
        ss == generateSessionSalt(c1)
        c2 == [c1 EXCEPT !.sessionSalt = ss.val]
        blk == NewCipher(c2.sessionKey)
    IN  IF bad # NoErr THEN [c |-> Nil, err |-> bad]
        ELSE IF sk.err # NoErr THEN [c |-> Nil, err |-> sk.err]
        ELSE IF ss.err # NoErr THEN [c |-> Nil, err |-> ss.err]
        ELSE IF blk.err # NoErr THEN [c |-> Nil, err |-> blk.err]
        ELSE [c |-> [c2 EXCEPT !.block = [key |-> blk.key]], err |-> NoErr]

-----------------------------------------------------------------------------
(* The per-packet path: srtp.go lines 132-188.                             *)

\* generateCounter with the salt OR-ed in, as the formula of line 131 is written
generateCounterOr(ctx, sequenceNumber) ==
    LET counter == Zeros(4) \o PutUint32(ctx.ssrc) \o PutUint32(ctx.rolloverCounter)
                       \o PutUint32(Shl16(sequenceNumber))
    IN  AsBytes([i \in 1..BlockSize |->
            IF i <= Len(ctx.sessionSalt) THEN Or8(counter[i], ctx.sessionSalt[i])
            ELSE counter[i]])

\* generateCounter with the sequence number stored without the shift of line 137
generateCounterNoShift(ctx, sequenceNumber) ==
    LET counter == Zeros(4) \o PutUint32(ctx.ssrc) \o PutUint32(ctx.rolloverCounter)
                       \o PutUint32(<<0, sequenceNumber>>)
    IN  AsBytes([i \in 1..BlockSize |->
            IF i <= Len(ctx.sessionSalt) THEN Xor8(counter[i], ctx.sessionSalt[i])
            ELSE counter[i]])

\* c.generateCounter(sequenceNumber): the 16-byte counter block
generateCounter(ctx, sequenceNumber) ==
    LET counter == Zeros(4) \o PutUint32(ctx.ssrc) \o PutUint32(ctx.rolloverCounter)
                       \o PutUint32(Shl16(sequenceNumber))
    IN  AsBytes([i \in 1..BlockSize |->
            IF i <= Len(ctx.sessionSalt) THEN Xor8(counter[i], ctx.sessionSalt[i])
            ELSE counter[i]])

\* updateRolloverCount with the tests as separate ifs: the exact-wrap test and
\* the early-wrap test both apply to one packet
updateRolloverCountNoElse(ctx, sequenceNumber) ==
    LET last == ctx.lastSequenceNumber
        exact == sequenceNumber = 0 /\ last > maxROCDisorder
        late == last < maxROCDisorder
                    /\ sequenceNumber > maxSequenceNumber - maxROCDisorder
        early == sequenceNumber < maxROCDisorder
                    /\ last > maxSequenceNumber - maxROCDisorder
        r1 == IF exact THEN Inc32(ctx.rolloverCounter) ELSE ctx.rolloverCounter
        r2 == IF late THEN Dec32(r1) ELSE r1
        r3 == IF early THEN Inc32(r2) ELSE r2
    IN  IF ~ctx.rolloverHasProcessed
        THEN [ctx EXCEPT !.rolloverHasProcessed = TRUE,
                         !.lastSequenceNumber = sequenceNumber]
        ELSE [ctx EXCEPT !.rolloverCounter = r3, !.lastSequenceNumber = sequenceNumber]

\* updateRolloverCount without the late-arrival decrement of lines 157-160
updateRolloverCountNoDecrement(ctx, sequenceNumber) ==
    LET roc == ctx.rolloverCounter
        last == ctx.lastSequenceNumber
        c1 == IF ~ctx.rolloverHasProcessed
                  THEN [ctx EXCEPT !.rolloverHasProcessed = TRUE]
              ELSE IF sequenceNumber = 0
                  THEN IF last > maxROCDisorder
                       THEN [ctx EXCEPT !.rolloverCounter = Inc32(roc)]
                       ELSE ctx
              ELSE IF sequenceNumber < maxROCDisorder
                      /\ last > maxSequenceNumber - maxROCDisorder
                  THEN [ctx EXCEPT !.rolloverCounter = Inc32(roc)]
              ELSE ctx
    IN  [c1 EXCEPT !.lastSequenceNumber = sequenceNumber]

\* updateRolloverCount without the test of line 154: every later 0 counts a wrap
updateRolloverCountAlwaysOnZero(ctx, sequenceNumber) ==
    LET roc == ctx.rolloverCounter
        last == ctx.lastSequenceNumber
        c1 == IF ~ctx.rolloverHasProcessed
                  THEN [ctx EXCEPT !.rolloverHasProcessed = TRUE]
              ELSE IF sequenceNumber = 0
                  THEN [ctx EXCEPT !.rolloverCounter = Inc32(roc)]
              ELSE IF last < maxROCDisorder
                      /\ sequenceNumber > maxSequenceNumber - maxROCDisorder
                  THEN [ctx EXCEPT !.rolloverCounter = Dec32(roc)]
              ELSE IF sequenceNumber < maxROCDisorder
                      /\ last > maxSequenceNumber - maxROCDisorder
                  THEN [ctx EXCEPT !.rolloverCounter = Inc32(roc)]
              ELSE ctx
    IN  [c1 EXCEPT !.lastSequenceNumber = sequenceNumber]

\* updateRolloverCount without the first-packet case of lines 148-149: the first
\* packet is compared with the zero lastSequenceNumber
updateRolloverCountNoSeed(ctx, sequenceNumber) ==
    LET roc == ctx.rolloverCounter
        last == ctx.lastSequenceNumber
        c1 == IF sequenceNumber = 0
                  THEN IF last > maxROCDisorder
                       THEN [ctx EXCEPT !.rolloverCounter = Inc32(roc)]
                       ELSE ctx
              ELSE IF last < maxROCDisorder
                      /\ sequenceNumber > maxSequenceNumber - maxROCDisorder
                  THEN [ctx EXCEPT !.rolloverCounter = Dec32(roc)]
              ELSE IF sequenceNumber < maxROCDisorder
                      /\ last > maxSequenceNumber - maxROCDisorder
                  THEN [ctx EXCEPT !.rolloverCounter = Inc32(roc)]
              ELSE ctx
    IN  [c1 EXCEPT !.lastSequenceNumber = sequenceNumber, !.rolloverHasProcessed = TRUE]

\* updateRolloverCount with the test of line 154 written as "at least maxROCDisorder"
updateRolloverCountInclusive(ctx, sequenceNumber) ==
    LET roc == ctx.rolloverCounter
        last == ctx.lastSequenceNumber
        c1 == IF ~ctx.rolloverHasProcessed
                  THEN [ctx EXCEPT !.rolloverHasProcessed = TRUE]
              ELSE IF sequenceNumber = 0
                  THEN IF last >= maxROCDisorder
                       THEN [ctx EXCEPT !.rolloverCounter = Inc32(roc)]
                       ELSE ctx
              ELSE IF last < maxROCDisorder
                      /\ sequenceNumber > maxSequenceNumber - maxROCDisorder
                  THEN [ctx EXCEPT !.rolloverCounter = Dec32(roc)]
              ELSE IF sequenceNumber < maxROCDisorder
                      /\ last > maxSequenceNumber - maxROCDisorder
                  THEN [ctx EXCEPT !.rolloverCounter = Inc32(roc)]
              ELSE ctx
    IN  [c1 EXCEPT !.lastSequenceNumber = sequenceNumber]

\* updateRolloverCount without the early-wrap case of lines 161-165
updateRolloverCountNoEarlyWrap(ctx, sequenceNumber) ==
    LET roc == ctx.rolloverCounter
        last == ctx.lastSequenceNumber
        c1 == IF ~ctx.rolloverHasProcessed
                  THEN [ctx EXCEPT !.rolloverHasProcessed = TRUE]
              ELSE IF sequenceNumber = 0
                  THEN IF last > maxROCDisorder
                       THEN [ctx EXCEPT !.rolloverCounter = Inc32(roc)]
                       ELSE ctx
              ELSE IF last < maxROCDisorder
                      /\ sequenceNumber > maxSequenceNumber - maxROCDisorder
                  THEN [ctx EXCEPT !.rolloverCounter = Dec32(roc)]
              ELSE ctx
    IN  [c1 EXCEPT !.lastSequenceNumber = sequenceNumber]

\* c.updateRolloverCount(sequenceNumber): the context afterwards
updateRolloverCount(ctx, sequenceNumber) ==
    LET roc == ctx.rolloverCounter
        last == ctx.lastSequenceNumber
        c1 == IF ~ctx.rolloverHasProcessed
                  THEN [ctx EXCEPT !.rolloverHasProcessed = TRUE]
              ELSE IF sequenceNumber = 0
                  THEN IF last > maxROCDisorder
                       THEN [ctx EXCEPT !.rolloverCounter = Inc32(roc)]
                       ELSE ctx
              ELSE IF last < maxROCDisorder
                      /\ sequenceNumber > maxSequenceNumber - maxROCDisorder
                  THEN [ctx EXCEPT !.rolloverCounter = Dec32(roc)]
              ELSE IF sequenceNumber < maxROCDisorder
                      /\ last > maxSequenceNumber - maxROCDisorder
                  THEN [ctx EXCEPT !.rolloverCounter = Inc32(roc)]
              ELSE ctx
    IN  [c1 EXCEPT !.lastSequenceNumber = sequenceNumber]

\* the test of line 171
ssrcMismatch(ctx, p) == ctx.ssrc # Zero32 /\ ctx.ssrc # p.SSRC

\* Rejected with the rollover state updated before the stream test
RejectedAfterUpdate(ctx, p) ==
    [c |-> updateRolloverCount(ctx, p.SequenceNumber), packet |-> p, ret |-> "false"]

\* Rejected with the sequence number of the refused packet remembered
RejectedSeqStored(ctx, p) ==
    [c |-> [ctx EXCEPT !.lastSequenceNumber = p.SequenceNumber], packet |-> p, ret |-> "false"]

\* the early return of line 172: nothing is written
Rejected(ctx, p) == [c |-> ctx, packet |-> p, ret |-> "false"]

\* Accepted with Raw rebuilt from the payload before the 10 bytes are dropped
AcceptedRawKeepsTag(ctx, p) ==
    LET c1 == [ctx EXCEPT !.ssrc = p.SSRC]
        c2 == updateRolloverCount(c1, p.SequenceNumber)
        payload == XORKeyStream(c2.block, generateCounter(c2, p.SequenceNumber), p.Payload)
        trimmed == SubSeq(payload, 1, Len(payload) - tagLen)
    IN  IF Len(payload) < tagLen
            THEN [c |-> c2, packet |-> [p EXCEPT !.Payload = payload], ret |-> "panic"]
        ELSE IF p.PayloadOffset < 0 \/ p.PayloadOffset > Len(p.Raw)
            THEN [c |-> c2, packet |-> [p EXCEPT !.Payload = trimmed], ret |-> "panic"]
        ELSE [c |-> c2,
              packet |-> [p EXCEPT !.Payload = trimmed,
                                   !.Raw = SubSeq(p.Raw, 1, p.PayloadOffset) \o payload],
              ret |-> "true"]

\* Accepted with the loop of line 140 storing into c.sessionSalt: the salted
\* counter bytes are left in the session salt
AcceptedSaltClobbered(ctx, p) ==
    LET c1 == [ctx EXCEPT !.ssrc = p.SSRC]
        c2 == updateRolloverCount(c1, p.SequenceNumber)
        counter == generateCounter(c2, p.SequenceNumber)
        c3 == [c2 EXCEPT !.sessionSalt = SubSeq(counter, 1, Len(c2.sessionSalt))]
        payload == XORKeyStream(c2.block, counter, p.Payload)
        trimmed == SubSeq(payload, 1, Len(payload) - tagLen)
    IN  IF Len(payload) < tagLen
            THEN [c |-> c3, packet |-> [p EXCEPT !.Payload = payload], ret |-> "panic"]
        ELSE IF p.PayloadOffset < 0 \/ p.PayloadOffset > Len(p.Raw)
            THEN [c |-> c3, packet |-> [p EXCEPT !.Payload = trimmed], ret |-> "panic"]
        ELSE [c |-> c3,
              packet |-> [p EXCEPT !.Payload = trimmed,
                                   !.Raw = SubSeq(p.Raw, 1, p.PayloadOffset) \o trimmed],
              ret |-> "true"]

\* lines 174-187.  The slice expressions of lines 181 and 184 panic when their
\* bound is out of range; by then the context is updated and the payload buffer
\* is XORed in place.
Accepted(ctx, p) ==
    LET c1 == [ctx EXCEPT !.ssrc = p.SSRC]
        c2 == updateRolloverCount(c1, p.SequenceNumber)
        payload == XORKeyStream(c2.block, generateCounter(c2, p.SequenceNumber), p.Payload)
        trimmed == SubSeq(payload, 1, Len(payload) - tagLen)
    IN  IF Len(payload) < tagLen
            THEN [c |-> c2, packet |-> [p EXCEPT !.Payload = payload], ret |-> "panic"]
        ELSE IF p.PayloadOffset < 0 \/ p.PayloadOffset > Len(p.Raw)
            THEN [c |-> c2, packet |-> [p EXCEPT !.Payload = trimmed], ret |-> "panic"]
        ELSE [c |-> c2,
              packet |-> [p EXCEPT !.Payload = trimmed,
                                   !.Raw = SubSeq(p.Raw, 1, p.PayloadOffset) \o trimmed],
              ret |-> "true"]

\* c.DecryptPacket(packet): the context and the packet afterwards, and the result
DecryptPacketOn(ctx, p) ==
    IF ssrcMismatch(ctx, p) THEN Rejected(ctx, p) ELSE Accepted(ctx, p)

-----------------------------------------------------------------------------
(* DecryptPacket statement by statement: what one call does to the shared  *)
(* context between two of its reads or writes of ssrc,                     *)
(* rolloverHasProcessed, rolloverCounter and lastSequenceNumber.  A call   *)
(* is the record of its position pc (the line it is about to execute), its *)
(* packet p, the rolloverCounter value tmp it loaded for ++ or --, its     *)
(* result ret and the packet out it leaves behind.                         *)

\* lines 177-187 on the context as it is when the call gets there
decryptPayload(ctx, p) ==
    LET payload == XORKeyStream(ctx.block, generateCounter(ctx, p.SequenceNumber), p.Payload)
        trimmed == SubSeq(payload, 1, Len(payload) - tagLen)
    IN  IF Len(payload) < tagLen
            THEN [packet |-> [p EXCEPT !.Payload = payload], ret |-> "panic"]
        ELSE IF p.PayloadOffset < 0 \/ p.PayloadOffset > Len(p.Raw)
            THEN [packet |-> [p EXCEPT !.Payload = trimmed], ret |-> "panic"]
        ELSE [packet |-> [p EXCEPT !.Payload = trimmed,
                                   !.Raw = SubSeq(p.Raw, 1, p.PayloadOffset) \o trimmed],
              ret |-> "true"]

\* line 174 left out
bindNothing(ctx, p) == ctx

\* line 174
bind(ctx, p) == [ctx EXCEPT !.ssrc = p.SSRC]

\* the line the tests of lines 150-161 lead to, from one load of lastSequenceNumber
branchOf(last, sequenceNumber) ==
    IF sequenceNumber = 0
        THEN IF last > maxROCDisorder THEN "l155" ELSE "l166"
    ELSE IF last < maxROCDisorder /\ sequenceNumber > maxSequenceNumber - maxROCDisorder
        THEN "l160"
    ELSE IF sequenceNumber < maxROCDisorder /\ last > maxSequenceNumber - maxROCDisorder
        THEN "l164"
    ELSE "l166"

\* the next statement of the call me on the context ctx
StepOn(ctx, me) ==
    LET p == me.p
        goto(l) == [c |-> ctx, call |-> [me EXCEPT !.pc = l]]
    IN  CASE me.pc = "l170" ->     \* line 171, c.ssrc != 0
                 IF ctx.ssrc # Zero32 THEN goto("l171") ELSE goto("l174")
          [] me.pc = "l171" ->     \* line 171, c.ssrc != packet.SSRC
                 IF ctx.ssrc # p.SSRC
                 THEN [c |-> ctx, call |-> [me EXCEPT !.pc = "done", !.ret = "false", !.out = p]]
                 ELSE goto("l174")
          [] me.pc = "l174" ->
                 [c |-> bind(ctx, p), call |-> [me EXCEPT !.pc = "l148"]]
          [] me.pc = "l148" ->
                 IF ~ctx.rolloverHasProcessed THEN goto("l149") ELSE goto("l150")
          [] me.pc = "l149" ->
                 [c |-> [ctx EXCEPT !.rolloverHasProcessed = TRUE],
                  call |-> [me EXCEPT !.pc = "l166"]]
          [] me.pc = "l150" ->
                 goto(branchOf(ctx.lastSequenceNumber, p.SequenceNumber))
          [] me.pc \in {"l155", "l160", "l164"} ->     \* the load of ++ / --
                 [c |-> ctx,
                  call |-> [me EXCEPT !.pc = IF me.pc = "l160" THEN "dec" ELSE "inc",
                                      !.tmp = ctx.rolloverCounter]]
          [] me.pc = "inc" ->      \* the store of ++
                 [c |-> [ctx EXCEPT !.rolloverCounter = Inc32(me.tmp)],
                  call |-> [me EXCEPT !.pc = "l166"]]
          [] me.pc = "dec" ->      \* the store of --
                 [c |-> [ctx EXCEPT !.rolloverCounter = Dec32(me.tmp)],
                  call |-> [me EXCEPT !.pc = "l166"]]
          [] me.pc = "l166" ->
                 [c |-> [ctx EXCEPT !.lastSequenceNumber = p.SequenceNumber],
                  call |-> [me EXCEPT !.pc = "l177"]]
          [] me.pc = "l177" ->
                 LET r == decryptPayload(ctx, p)
                 IN  [c |-> ctx,
                      call |-> [me EXCEPT !.pc = "done", !.ret = r.ret, !.out = r.packet]]

-----------------------------------------------------------------------------
(* Inputs.                                                                 *)

MaxROC == 2          \* rolloverCounter is kept within MaxROC of 0, on either side
HeaderLen == 12      \* bytes of packet.Raw before the payload

\* a []byte of length n
Bytes(n, seed) == AsBytes([i \in 1..n |-> (seed + 37 * i) % 256])

MasterKeys == {Bytes(n, 1) : n \in {0, 15, 16, 17, 32}}
MasterSalts == {Bytes(n, 2) : n \in {0, 13, 14, 15, 16}}

SSRCs == {<<0, 0>>, <<0, 1000>>, <<0, 2000>>}
SeqVals == {5, 6, 50, 65500}
PayloadLens == {9, 10, 26}

\* a parsed packet: Raw is the header followed by the payload
MakePacket(ssrc, seq, n, off) ==
    [SSRC |-> ssrc,
     SequenceNumber |-> seq,
     Payload |-> Bytes(n, 3),
     Raw |-> Bytes(HeaderLen, 4) \o Bytes(n, 3),
     PayloadOffset |-> off]

Packets ==
    {MakePacket(s, q, n, off) :
        s \in SSRCs, q \in SeqVals, n \in PayloadLens, off \in {HeaderLen}}
    \cup {MakePacket(s, 5, 26, off) : s \in SSRCs, off \in {0, HeaderLen + 27}}

RocNear(x) ==
    \/ x[1] = 0 /\ x[2] <= MaxROC
    \/ x[1] = 65535 /\ x[2] >= 65536 - MaxROC

-----------------------------------------------------------------------------
(* The operations as actions.                                              *)

Fresh == CreateContextOn(Bytes(keyLen, 1), Bytes(saltLen, 2)).c

InitCommon ==
    /\ err = NoCall /\ made = Nil
    /\ packet = Nil /\ ret = NoCall /\ pre = Nil /\ pin = Nil
    /\ firstSSRC = None32
    /\ seqs = <<>> /\ rocs = <<>>
    /\ idx = -1 /\ firstEpoch = -1
    /\ ctrIn = <<>> /\ ctrOut = <<>>
    /\ kdf = Nil /\ race = Nil /\ shadow = Nil /\ used = <<>>

\* c, err = CreateContext(masterKey, masterSalt, profile)
CreateContext(masterKey, masterSalt) ==
    /\ c = Nil
    /\ LET r == CreateContextOn(masterKey, masterSalt)
       IN  c' = r.c /\ err' = r.err
    /\ made' = [masterKey |-> masterKey, masterSalt |-> masterSalt]
    /\ kdf' = IF CheckLengths(masterKey, masterSalt) # NoErr THEN Nil
              ELSE [key |-> DerivationInput(masterSalt, labelEncryption),
                    salt |-> DerivationInput(masterSalt, labelSalt)]
    /\ UNCHANGED <<packet, ret, pre, pin, firstSSRC, seqs, rocs, idx, firstEpoch,
                   ctrIn, ctrOut, race, shadow, used>>

\* c.DecryptPacket(p); a panic ends the run
Decrypt(p) ==
    /\ c # Nil
    /\ ret # "panic"
    /\ LET r == DecryptPacketOn(c, p)
       IN  /\ RocNear(r.c.rolloverCounter)
           /\ c' = r.c /\ packet' = r.packet /\ ret' = r.ret
           /\ firstSSRC' = IF firstSSRC = None32 /\ r.ret # "false" THEN p.SSRC
                           ELSE firstSSRC

DecryptPacket(p) ==
    /\ Decrypt(p)
    /\ pre' = c /\ pin' = p
    /\ UNCHANGED <<err, made, seqs, rocs, idx, firstEpoch, ctrIn, ctrOut, kdf, race, shadow, used>>

Init == c = Nil /\ InitCommon

Next ==
    \/ \E k \in MasterKeys, s \in MasterSalts : CreateContext(k, s)
    \/ \E p \in Packets : DecryptPacket(p)

Spec == Init /\ [][Next]_vars

-----------------------------------------------------------------------------
(* SpecDerive: CreateContext on 16-byte master keys and 14-byte master     *)
(* salts of many values, for the blocks that key derivation encrypts.      *)

MaxSeed == 11

DeriveKeys == {Bytes(keyLen, sd) : sd \in 0..MaxSeed}
DeriveSalts ==
    {Bytes(saltLen, 20 * sd) : sd \in 0..MaxSeed}
        \cup {Zeros(saltLen), AsBytes([i \in 1..saltLen |-> 255])}

NextDerive == \E k \in DeriveKeys, s \in DeriveSalts : CreateContext(k, s)

SpecDerive == Init /\ [][NextDerive]_vars

-----------------------------------------------------------------------------
(* SpecSeq: sequence numbers of one stream fed to a fresh context, with    *)
(* the rolloverCounter recorded after each.                                *)

MaxFeed == 4

StreamSSRC == <<0, 1000>>
SeqFeed == {0, 50, 99, 100, 65435, 65436, 65500, 65530}

\* a packet of the stream: a payload that is the tag placeholder alone
StreamPacket(seq) == MakePacket(StreamSSRC, seq, tagLen, HeaderLen)

Feed(q) ==
    /\ Len(seqs) < MaxFeed
    /\ Decrypt(StreamPacket(q))
    /\ seqs' = Append(seqs, q)
    /\ rocs' = Append(rocs, c'.rolloverCounter)
    /\ UNCHANGED <<err, made, pre, pin, idx, firstEpoch, ctrIn, ctrOut, kdf, race, shadow, used>>

InitFresh == c = Fresh /\ InitCommon

NextSeq == \E q \in SeqFeed : Feed(q)

SpecSeq == InitFresh /\ [][NextSeq]_vars

-----------------------------------------------------------------------------
(* SpecStream: the packets of one stream, each with its true index         *)
(* epoch * 65536 + seq, delivered so that consecutive packets are at most  *)
(* 100 apart.  The indices are those within Win of the wrap at 65536 and   *)
(* within MidWin of the middle of the epoch after it.                      *)

Win == 200
MidWin == 20

Abs(n) == IF n < 0 THEN -n ELSE n

Indices == ((65536 - Win)..(65536 + Win)) \cup ((98304 - MidWin)..(98304 + MidWin))

Deliver(i) ==
    /\ idx = -1 \/ Abs(i - idx) <= 100
    /\ Decrypt(StreamPacket(i % 65536))
    /\ idx' = i
    /\ firstEpoch' = IF idx = -1 THEN i \div 65536 ELSE firstEpoch
    /\ UNCHANGED <<err, made, pre, pin, seqs, rocs, ctrIn, ctrOut, kdf, race, shadow, used>>

NextStream == \E i \in Indices : Deliver(i)

SpecStream == InitFresh /\ [][NextStream]_vars

-----------------------------------------------------------------------------
(* SpecInOrder: a stream delivered in order, without loss or duplication,  *)
(* from one of the starting sequence numbers of epoch 0 up to the packet   *)
(* with true index EndIdx (sequence number 1 of epoch 1).                  *)

EndIdx == 65537

StartSeqs == {0, 65000, 65535}

DeliverFirst(q) ==
    /\ idx = -1
    /\ Decrypt(StreamPacket(q))
    /\ idx' = q /\ firstEpoch' = 0
    /\ pre' = c /\ pin' = StreamPacket(q)
    /\ UNCHANGED <<err, made, seqs, rocs, ctrIn, ctrOut, kdf, race, shadow, used>>

DeliverNext ==
    /\ idx # -1
    /\ idx + 1 <= EndIdx
    /\ Decrypt(StreamPacket((idx + 1) % 65536))
    /\ idx' = idx + 1
    /\ pre' = c /\ pin' = StreamPacket((idx + 1) % 65536)
    /\ UNCHANGED <<err, made, firstEpoch, seqs, rocs, ctrIn, ctrOut, kdf, race, shadow, used>>

NextInOrder == (\E q \in StartSeqs : DeliverFirst(q)) \/ DeliverNext

SpecInOrder == InitFresh /\ [][NextInOrder]_vars

-----------------------------------------------------------------------------
(* SpecTable: one call of updateRolloverCount on a fresh context and on    *)
(* contexts that have processed packets, for the lastSequenceNumber and    *)
(* sequence number values on either side of each threshold.                *)

Edge == {0, 1, 99, 100, 101, 65435, 65436, 65535}
TableROCs == {<<0, 0>>, <<0, 1>>, <<65535, 65535>>}

InitTable ==
    /\ c \in {Fresh} \cup
             {[Fresh EXCEPT !.ssrc = StreamSSRC,
                            !.rolloverHasProcessed = TRUE,
                            !.lastSequenceNumber = l,
                            !.rolloverCounter = r] : l \in Edge, r \in TableROCs}
    /\ InitCommon

\* c.updateRolloverCount(q)
UpdateRolloverCount(q) ==
    /\ seqs = <<>>
    /\ c' = updateRolloverCount(c, q)
    /\ pre' = c
    /\ seqs' = <<q>>
    /\ UNCHANGED <<err, packet, ret, pin, made, firstSSRC, rocs, idx, firstEpoch,
                   ctrIn, ctrOut, kdf, race, shadow, used>>

NextTable == \E q \in Edge : UpdateRolloverCount(q)

SpecTable == InitTable /\ [][NextTable]_vars

-----------------------------------------------------------------------------
(* SpecRace: two DecryptPacket calls on one context with nothing between   *)
(* them to order their statements: each step is the next statement of one  *)
(* of the two calls.  race.from is the context before the calls and        *)
(* race.overlap says whether a call has run a statement while the other    *)
(* was between its first and its last.                                     *)

RaceSeqs == {0, 50, 65500}
RaceSSRCs == {<<0, 1000>>, <<0, 2000>>}
RacePackets == {MakePacket(s, q, tagLen, HeaderLen) : s \in RaceSSRCs, q \in RaceSeqs}

\* a context that has processed the packets 65500 and 60 of stream 1000
Wrapped ==
    [Fresh EXCEPT !.ssrc = StreamSSRC, !.rolloverHasProcessed = TRUE,
                  !.lastSequenceNumber = 60, !.rolloverCounter = <<0, 1>>]

NewCall(p) == [pc |-> "l170", p |-> p, tmp |-> Zero32, ret |-> NoCall, out |-> Nil]

InitRace ==
    /\ c \in {Fresh, Wrapped}
    /\ \E p1 \in RacePackets, p2 \in RacePackets :
          race = [from |-> c, call |-> <<NewCall(p1), NewCall(p2)>>, overlap |-> FALSE]
    /\ err = NoCall /\ made = Nil
    /\ packet = Nil /\ ret = NoCall /\ pre = Nil /\ pin = Nil
    /\ firstSSRC = None32
    /\ seqs = <<>> /\ rocs = <<>>
    /\ idx = -1 /\ firstEpoch = -1
    /\ ctrIn = <<>> /\ ctrOut = <<>>
    /\ kdf = Nil /\ shadow = Nil /\ used = <<>>

\* call k executes its next statement
Step(k) ==
    LET me == race.call[k]
        other == race.call[3 - k]
        r == StepOn(c, me)
    IN  /\ me.pc # "done"
        /\ c' = r.c
        /\ race' = [race EXCEPT !.call[k] = r.call,
                                !.overlap = @ \/ other.pc \notin {"l170", "done"}]
        /\ UNCHANGED <<err, packet, ret, pre, pin, made, firstSSRC, seqs, rocs, idx,
                       firstEpoch, ctrIn, ctrOut, kdf, shadow, used>>

NextRace == \E k \in {1, 2} : Step(k)

SpecRace == InitRace /\ [][NextRace]_vars

-----------------------------------------------------------------------------
(* SpecFilter: two runs side by side.  c is fed every packet; shadow.c is  *)
(* fed the same packets except those whose SSRC is not the one the context *)
(* is bound to, which is the non-zero SSRC of the first packet.            *)
(* shadow.ret is the result of the last call on shadow.c and               *)
(* shadow.removed says whether a packet has been left out.                 *)

FilterSeqs == {0, 50, 200, 65500, 65530}
FilterPackets == {MakePacket(s, q, tagLen, HeaderLen) : s \in SSRCs, q \in FilterSeqs}

InitFilter ==
    /\ c = Fresh
    /\ shadow = [c |-> Fresh, ret |-> NoCall, removed |-> FALSE]
    /\ err = NoCall /\ made = Nil
    /\ packet = Nil /\ ret = NoCall /\ pre = Nil /\ pin = Nil
    /\ firstSSRC = None32
    /\ seqs = <<>> /\ rocs = <<>>
    /\ idx = -1 /\ firstEpoch = -1
    /\ ctrIn = <<>> /\ ctrOut = <<>>
    /\ kdf = Nil /\ race = Nil /\ used = <<>>

\* the packet is of another stream than the one the first packet bound
Mismatching(p) == firstSSRC # None32 /\ p.SSRC # firstSSRC

\* c.DecryptPacket(p) in the full run, and in the filtered run unless p is removed
DecryptBoth(p) ==
    /\ firstSSRC = None32 => p.SSRC # Zero32
    /\ Decrypt(p)
    /\ shadow' = IF Mismatching(p) THEN [shadow EXCEPT !.removed = TRUE]
                 ELSE LET r == DecryptPacketOn(shadow.c, p)
                      IN  [shadow EXCEPT !.c = r.c, !.ret = r.ret]
    /\ UNCHANGED <<err, made, pre, pin, seqs, rocs, idx, firstEpoch, ctrIn, ctrOut,
                   kdf, race, used>>

NextFilter == \E p \in FilterPackets : DecryptBoth(p)

SpecFilter == InitFilter /\ [][NextFilter]_vars

-----------------------------------------------------------------------------
(* SpecOnce: the packets of one stream, each delivered at most once, with  *)
(* consecutive packets at most 100 apart in true index.  The indices are   *)
(* every hundredth from 0 to 100 * MaxHop, across the wrap at 65536, and   *)
(* the ones next to the wrap; used records the counter block DecryptPacket *)
(* built (line 177) for each index delivered.                              *)

MaxHop == 657

OnceIndices ==
    {100 * k : k \in 0..MaxHop}
        \cup {65436, 65450, 65535, 65536, 65537, 65550, 65636}
\* the first packet of the run
OnceStarts == {0, 100}

DeliverOnce(i) ==
    /\ IF idx = -1 THEN i \in OnceStarts ELSE Abs(i - idx) <= 100
    /\ i \notin DOMAIN used
    /\ Decrypt(StreamPacket(i % 65536))
    /\ idx' = i
    /\ firstEpoch' = IF idx = -1 THEN i \div 65536 ELSE firstEpoch
    /\ used' = used @@ (i :> generateCounter(c', i % 65536))
    /\ UNCHANGED <<err, made, pre, pin, seqs, rocs, ctrIn, ctrOut, kdf, race, shadow>>

NextOnce == \E i \in OnceIndices : DeliverOnce(i)

SpecOnce == InitFresh /\ [][NextOnce]_vars

-----------------------------------------------------------------------------
(* SpecCounter: generateCounter applied to two (rolloverCounter,           *)
(* sequenceNumber) pairs on contexts with the same stream identifier and   *)
(* session salt.                                                           *)

CounterROCs == {<<0, 0>>, <<0, 1>>, <<0, 256>>, <<1, 0>>, <<256, 0>>, <<65535, 65535>>}
CounterSeqs == {0, 1, 255, 256, 65535}
CounterSSRCs == {<<0, 0>>, <<0, 1000>>, <<65535, 65535>>}
CounterInputs == [roc : CounterROCs, seq : CounterSeqs]

InitCounter ==
    /\ c \in {[CreateContextOn(Bytes(keyLen, 1), Bytes(saltLen, sd)).c EXCEPT !.ssrc = x] :
                 sd \in {2, 9}, x \in CounterSSRCs}
    /\ err = NoErr /\ made = Nil
    /\ packet = Nil /\ ret = NoCall /\ pre = Nil /\ pin = Nil
    /\ firstSSRC = None32
    /\ seqs = <<>> /\ rocs = <<>>
    /\ idx = -1 /\ firstEpoch = -1
    /\ ctrIn \in CounterInputs \X CounterInputs
    /\ ctrOut = <<<<>>, <<>>>>
    /\ kdf = Nil /\ race = Nil /\ shadow = Nil /\ used = <<>>

\* c.generateCounter(seq) with c.rolloverCounter = roc, for pair k of ctrIn
GenerateCounter(k) ==
    /\ ctrOut[k] = <<>>
    /\ ctrOut' = [ctrOut EXCEPT ![k] =
                    generateCounter([c EXCEPT !.rolloverCounter = ctrIn[k].roc],
                                    ctrIn[k].seq)]
    /\ UNCHANGED <<c, err, packet, ret, pre, pin, made, firstSSRC, seqs, rocs, idx,
                   firstEpoch, ctrIn, kdf, race, shadow, used>>

NextCounter == \E k \in {1, 2} : GenerateCounter(k)

SpecCounter == InitCounter /\ [][NextCounter]_vars


-----------------------------------------------------------------------------
(* Properties of Spec.                                                     *)

Called == ret # NoCall

\* the four fields of the rollover / binding state are as before the last call
StateUntouched ==
    /\ c.ssrc = pre.ssrc
    /\ c.rolloverCounter = pre.rolloverCounter
    /\ c.rolloverHasProcessed = pre.rolloverHasProcessed
    /\ c.lastSequenceNumber = pre.lastSequenceNumber

\* C1: a call on a context bound to a stream identifier (ssrc is set, i.e. not
\* the zero sentinel) with a packet of another SSRC returns false and leaves
\* ssrc, rolloverCounter, rolloverHasProcessed, lastSequenceNumber and the
\* packet's Payload and Raw as they were.
C1_MismatchRejectedUntouched ==
    (Called /\ pre.ssrc # Zero32 /\ pre.ssrc # pin.SSRC) =>
        /\ ret = "false"
        /\ StateUntouched
        /\ packet.Payload = pin.Payload
        /\ packet.Raw = pin.Raw

\* a context bound to 1000 that has counted a wrap rejects a packet of stream 2000
C1_Witness ==
    /\ Called
    /\ pre.ssrc = <<0, 1000>>
    /\ pre.rolloverCounter = <<0, 1>>
    /\ pre.lastSequenceNumber = 50
    /\ pin.SSRC = <<0, 2000>>
    /\ pin.SequenceNumber = 65500
    /\ ret = "false"

\* C2: once the first packet is processed the stream identifier never changes,
\* and every accepted packet carries the SSRC of the first one, for every SSRC
\* of the first packet including 0.
C2_BoundOnce ==
    Called =>
        /\ pre.rolloverHasProcessed => c.ssrc = pre.ssrc
        /\ ret = "true" => pin.SSRC = firstSSRC

\* C8: every call returns true or false without a panic, and a call that does
\* not succeed leaves ssrc, rolloverCounter, rolloverHasProcessed and
\* lastSequenceNumber as they were.
C8_FailuresBooleanAndUntouched ==
    Called =>
        /\ ret \in {"true", "false"}
        /\ ret # "true" => StateUntouched

\* C9: CreateContext returns a context and no error exactly when the key is 16
\* bytes and the salt 14 bytes long; otherwise it returns an error and nil.
C9_CreateIffLengths ==
    made # Nil =>
        IF Len(made.masterKey) = 16 /\ Len(made.masterSalt) = 14
        THEN /\ err = NoErr
             /\ c # Nil
             /\ c.masterKey = made.masterKey /\ c.masterSalt = made.masterSalt
             /\ c.block # Nil
        ELSE err # NoErr /\ c = Nil

\* a 16-byte key with a 15-byte salt is refused
C9_Witness ==
    /\ made # Nil
    /\ Len(made.masterKey) = 16
    /\ Len(made.masterSalt) = 15
    /\ err # NoErr
    /\ c = Nil

\* after a call that returned true lastSequenceNumber is that packet's
LastIsThisPacket == ret = "true" => c.lastSequenceNumber = pin.SequenceNumber

\* once a packet has been accepted (every earlier call that got past line 171
\* returned true, or the run would have ended), a call that does not return
\* true leaves lastSequenceNumber at the accepted packet's sequence number
LastKeptOtherwise ==
    (ret # "true" /\ pre.rolloverHasProcessed) =>
        c.lastSequenceNumber = pre.lastSequenceNumber

\* C15: after every call that returns true lastSequenceNumber is the sequence
\* number of that packet, whatever branch of the tracker was taken; hence at
\* any time it is the sequence number of the most recently accepted packet.
C15_LastIsMostRecentAccepted ==
    Called => (LastIsThisPacket /\ LastKeptOtherwise)

\* byte i (from 1) of the keystream of the last call: the counter block of the
\* context, advanced once per 16 bytes, encrypted under the session key
KeyStreamByte(i) ==
    Encrypt(c.sessionKey,
            AddBlock(generateCounter(c, pin.SequenceNumber), (i - 1) \div 16))[((i - 1) % 16) + 1]

\* C16: after a call that returns true on a packet with payload length n >= 10
\* and payload offset k, Payload has length n - 10, its bytes are the first
\* n - 10 original bytes each XORed with the keystream, and Raw is the first k
\* bytes of the original Raw followed by that Payload, of length k + n - 10.
C16_TrimmedAndReframed ==
    (Called /\ ret = "true") =>
        LET n == Len(pin.Payload)
            k == pin.PayloadOffset
        IN  /\ n >= 10
            /\ Len(packet.Payload) = n - 10
            /\ \A i \in 1..(n - 10) :
                  packet.Payload[i] = Xor8(pin.Payload[i], KeyStreamByte(i))
            /\ Len(packet.Raw) = k + n - 10
            /\ \A i \in 1..k : packet.Raw[i] = pin.Raw[i]
            /\ \A i \in 1..(n - 10) : packet.Raw[k + i] = packet.Payload[i]

\* the 26-byte payload behind the header: 16 bytes are left, changed by the
\* keystream, and Raw is the header and those 16 bytes
C16_Witness ==
    /\ Called /\ ret = "true"
    /\ Len(pin.Payload) = 26
    /\ pin.PayloadOffset = HeaderLen /\ Len(pin.Raw) = HeaderLen + 26
    /\ Len(packet.Payload) = 16
    /\ packet.Payload # SubSeq(pin.Payload, 1, 16)
    /\ Len(packet.Raw) = HeaderLen + 16
    /\ SubSeq(packet.Raw, 1, HeaderLen) = SubSeq(pin.Raw, 1, HeaderLen)

\* the five secrets of the context are as before the last call
SecretsUntouched ==
    /\ c.masterKey = pre.masterKey
    /\ c.masterSalt = pre.masterSalt
    /\ c.sessionKey = pre.sessionKey
    /\ c.sessionSalt = pre.sessionSalt
    /\ c.block = pre.block

\* C17: the secrets of a context are fixed at construction: masterKey and
\* masterSalt are the arguments of CreateContext, sessionKey and sessionSalt
\* what CreateContext derived from them and the block cipher is keyed with
\* sessionKey, before and after every DecryptPacket call, whether it accepted
\* the packet, rejected it or panicked.
C17_SecretsFixed ==
    c # Nil =>
        /\ c.masterKey = made.masterKey
        /\ c.masterSalt = made.masterSalt
        /\ c.sessionKey = Encrypt(made.masterKey, kdf.key)
        /\ c.sessionSalt = SubSeq(Encrypt(made.masterKey, kdf.salt), 1, saltLen)
        /\ c.block = [key |-> c.sessionKey]
        /\ Called => SecretsUntouched

\* an accepted packet that made the context count a wrap
C17_Witness ==
    /\ Called /\ ret = "true"
    /\ pre.rolloverHasProcessed
    /\ c.rolloverCounter # pre.rolloverCounter
    /\ c.lastSequenceNumber # pre.lastSequenceNumber
    /\ SecretsUntouched
    /\ c.block = [key |-> Encrypt(made.masterKey, kdf.key)]

-----------------------------------------------------------------------------
(* Properties of SpecStream.                                               *)

\* the uint32 that is congruent to d modulo 2^32, for a small integer d
U32OfInt(d) == IF d >= 0 THEN <<0, d>> ELSE <<65535, 65536 + d>>

\* C3: when consecutive packets are at most 100 apart in true index, after each
\* accepted packet rolloverCounter is the packet's true epoch minus the epoch
\* of the first packet, modulo 2^32, and lastSequenceNumber its sequence number.
C3_RolloverIsTrueEpoch ==
    (idx # -1 /\ ret = "true") =>
        /\ c.rolloverCounter = U32OfInt((idx \div 65536) - firstEpoch)
        /\ c.lastSequenceNumber = idx % 65536

\* a stream first seen in epoch 1 whose late packet of epoch 0 was accepted
C3_Witness ==
    /\ ret = "true"
    /\ firstEpoch = 1
    /\ idx \div 65536 = 0
    /\ c.lastSequenceNumber > 65435
    /\ c.rolloverCounter = <<65535, 65535>>

\* C4: rolloverCounter never underflows: no accepted packet of a stream within
\* the disorder window leaves it at 2^32 - 1 or just below.
C4_NeverUnderflows ==
    idx # -1 => c.rolloverCounter[1] # 65535

-----------------------------------------------------------------------------
(* Properties of SpecInOrder.                                              *)

\* C5: in an in-order stream rolloverCounter is incremented by the packet with
\* sequence number 0 that follows 65535 and by no other packet, so it counts
\* the wraps; 0, 1, ..., 65535, 0, 1 ends with rolloverCounter = 1.
C5_OneIncrementPerWrap ==
    Called =>
        /\ IF pre.rolloverHasProcessed /\ pin.SequenceNumber = 0
           THEN /\ pre.lastSequenceNumber = 65535
                /\ c.rolloverCounter = Inc32(pre.rolloverCounter)
           ELSE c.rolloverCounter = pre.rolloverCounter
        /\ c.rolloverCounter = <<0, idx \div 65536>>
        /\ idx = 65537 => c.rolloverCounter = <<0, 1>>

\* the end of 0, 1, ..., 65535, 0, 1
C5_Witness ==
    /\ idx = 65537
    /\ pin.SequenceNumber = 1
    /\ c.lastSequenceNumber = 1
    /\ c.rolloverCounter = <<0, 1>>

-----------------------------------------------------------------------------
(* Properties of SpecSeq.                                                  *)

High(q) == q > 65435
Low(q) == q < 100

\* C6: a run of sequence numbers above 65435 followed by one below 100 counts
\* one wrap, at the low sequence number, and none before it.
C6_HighRunThenLow ==
    \A n \in 1..Len(seqs) :
        (Low(seqs[n]) /\ \A i \in 1..(n - 1) : High(seqs[i])) =>
            /\ \A i \in 1..(n - 1) : rocs[i] = Zero32
            /\ rocs[n] = IF n > 1 THEN <<0, 1>> ELSE Zero32

C6_Witness ==
    /\ seqs = <<65500, 65530, 50>>
    /\ rocs = <<Zero32, Zero32, <<0, 1>>>>

\* C7: after high, low the wrap is counted; a late high sequence number then
\* takes it back, and the next low one counts it again.
C7_DecrementThenReincrement ==
    (Len(seqs) >= 3 /\ High(seqs[1]) /\ Low(seqs[2]) /\ High(seqs[3])) =>
        /\ rocs[1] = Zero32
        /\ rocs[2] = <<0, 1>>
        /\ rocs[3] = Zero32
        /\ (Len(seqs) >= 4 /\ Low(seqs[4])) => rocs[4] = <<0, 1>>

C7_Witness ==
    /\ seqs = <<65500, 50, 65530, 50>>
    /\ rocs = <<Zero32, <<0, 1>>, Zero32, <<0, 1>>>>

-----------------------------------------------------------------------------
(* Properties of SpecCounter.                                              *)

\* C10: for one stream identifier and session salt, two distinct pairs
\* (rolloverCounter, sequenceNumber) give distinct counter blocks.
C10_CounterInjective ==
    (ctrOut[1] # <<>> /\ ctrOut[2] # <<>> /\ ctrIn[1] # ctrIn[2]) =>
        ctrOut[1] # ctrOut[2]

\* two pairs that differ in the lowest bit of the sequence number alone
C10_Witness ==
    /\ ctrOut[1] # <<>> /\ ctrOut[2] # <<>>
    /\ ctrIn[1] = [roc |-> <<0, 1>>, seq |-> 0]
    /\ ctrIn[2] = [roc |-> <<0, 1>>, seq |-> 1]
    /\ ctrOut[1] # ctrOut[2]

\* the counter block of pair k with the session salt taken off again
Unsalted(k) ==
    [i \in 1..saltLen |-> Xor8(ctrOut[k][i], c.sessionSalt[i])]

\* C11: the counter block is 16 bytes; before salting bytes 0-3 are zero, bytes
\* 4-7 the stream identifier, bytes 8-11 rolloverCounter and bytes 12-13 the
\* sequence number, all big-endian; the 14-byte session salt is XORed on bytes
\* 0-13 only, so bytes 14 and 15 of the block are zero for every input.
C11_CounterLayout ==
    \A k \in {1, 2} :
        ctrOut[k] # <<>> =>
            LET b == Unsalted(k)
            IN  /\ Len(ctrOut[k]) = 16
                /\ Len(c.sessionSalt) = 14
                /\ \A i \in 1..4 : b[i] = 0
                /\ b[5] * 256 + b[6] = c.ssrc[1]
                /\ b[7] * 256 + b[8] = c.ssrc[2]
                /\ b[9] * 256 + b[10] = ctrIn[k].roc[1]
                /\ b[11] * 256 + b[12] = ctrIn[k].roc[2]
                /\ b[13] * 256 + b[14] = ctrIn[k].seq
                /\ ctrOut[k][15] = 0
                /\ ctrOut[k][16] = 0

\* every bit of the stream identifier, the counter and the sequence number set
C11_Witness ==
    /\ ctrOut[1] # <<>>
    /\ c.ssrc = <<65535, 65535>>
    /\ ctrIn[1] = [roc |-> <<65535, 65535>>, seq |-> 65535]
    /\ Unsalted(1)[13] = 255 /\ Unsalted(1)[14] = 255
    /\ ctrOut[1][15] = 0 /\ ctrOut[1][16] = 0

-----------------------------------------------------------------------------
(* Properties of SpecDerive.                                               *)

Derived == kdf # Nil

\* the block b is the 14 bytes of salt, byte 7 of them XORed with label, placed
\* from byte off of the block on, and zero elsewhere (bytes counted from 0)
SaltPlacedAt(b, salt, label, off) ==
    /\ Len(b) = 16
    /\ \A i \in 1..16 :
          b[i] = IF i <= off \/ i > off + 14 THEN 0
                 ELSE IF i - off = 8 THEN Xor8(salt[8], label)
                 ELSE salt[i - off]

\* C12 as stated: the block encrypted under the master key is the master salt
\* right-aligned (two leading zero bytes, salt in bytes 2-15) with the label
\* XORed into byte 9; label 0x00 for the key and 0x02 for the salt.
C12_SaltRightAligned ==
    Derived =>
        /\ SaltPlacedAt(kdf.key, made.masterSalt, 0, 2)
        /\ SaltPlacedAt(kdf.salt, made.masterSalt, 2, 2)

\* C12 amended: the block is the master salt left-aligned (salt in bytes 0-13,
\* two trailing zero bytes), the final 7 bytes of the salt (bytes 7-13) XORed
\* with {label, 0, 0, 0, 0, 0, 0}, so the label lands in byte 7; label 0x00 for
\* the key and 0x02 for the salt; the session key is the block encrypted under
\* the master key and the session salt the first 14 bytes of it.
C12_SaltLeftAligned ==
    Derived =>
        /\ SaltPlacedAt(kdf.key, made.masterSalt, 0, 0)
        /\ SaltPlacedAt(kdf.salt, made.masterSalt, 2, 0)
        /\ c.sessionKey = Encrypt(made.masterKey, kdf.key)
        /\ c.sessionSalt = SubSeq(Encrypt(made.masterKey, kdf.salt), 1, 14)

\* a salt of 0xFF bytes: byte 7 of the salt block is 0xFD, bytes 14-15 are zero
C12_Witness ==
    /\ Derived
    /\ made.masterSalt = AsBytes([i \in 1..14 |-> 255])
    /\ kdf.salt[1] = 255
    /\ kdf.salt[8] = 253
    /\ kdf.salt[15] = 0 /\ kdf.salt[16] = 0
    /\ kdf.key[8] = 255

-----------------------------------------------------------------------------
(* Properties of SpecTable.                                                *)

\* C14: the first packet ever seen changes nothing but marks the context
\* initialized; afterwards rolloverCounter is incremented iff (seq = 0 and
\* last > 100) or (0 < seq < 100 and last > 65435), decremented iff (last < 100
\* and seq > 65435), and unchanged otherwise; the two conditions never hold
\* together, so one packet changes rolloverCounter by at most 1.
C14_DecisionTable ==
    seqs # <<>> =>
        LET last == pre.lastSequenceNumber
            seq == seqs[1]
            inc == \/ seq = 0 /\ last > 100
                   \/ 0 < seq /\ seq < 100 /\ last > 65435
            dec == last < 100 /\ seq > 65435
        IN  /\ ~(inc /\ dec)
            /\ c.rolloverHasProcessed
            /\ c.lastSequenceNumber = seq
            /\ c.ssrc = pre.ssrc
            /\ c.rolloverCounter =
                  IF ~pre.rolloverHasProcessed THEN pre.rolloverCounter
                  ELSE IF inc THEN Inc32(pre.rolloverCounter)
                  ELSE IF dec THEN Dec32(pre.rolloverCounter)
                  ELSE pre.rolloverCounter
            /\ c.rolloverCounter \in
                  {pre.rolloverCounter, Inc32(pre.rolloverCounter),
                   Dec32(pre.rolloverCounter)}

\* the early-wrap row at both of its thresholds, on a counter that had underflowed
C14_Witness ==
    /\ seqs = <<99>>
    /\ pre.rolloverHasProcessed
    /\ pre.lastSequenceNumber = 65436
    /\ pre.rolloverCounter = <<65535, 65535>>
    /\ c.rolloverCounter = Zero32

-----------------------------------------------------------------------------
(* Properties of SpecRace.                                                 *)

BothDone == race.call[1].pc = "done" /\ race.call[2].pc = "done"

\* what the two calls leave behind: the four fields of the context, the two
\* results and the two packets
Outcome(ctx, r1, r2, o1, o2) ==
    <<ctx.ssrc, ctx.rolloverHasProcessed, ctx.rolloverCounter, ctx.lastSequenceNumber,
      r1, r2, o1, o2>>

\* the outcome of call a run to its end and then call b, for a, b = 1, 2 or 2, 1
Serial(a, b) ==
    LET ra == DecryptPacketOn(race.from, race.call[a].p)
        rb == DecryptPacketOn(ra.c, race.call[b].p)
    IN  IF a = 1 THEN Outcome(rb.c, ra.ret, rb.ret, ra.packet, rb.packet)
        ELSE Outcome(rb.c, rb.ret, ra.ret, rb.packet, ra.packet)

Final ==
    Outcome(c, race.call[1].ret, race.call[2].ret, race.call[1].out, race.call[2].out)

Serializable == Final \in {Serial(1, 2), Serial(2, 1)}

\* C13: two DecryptPacket calls on one context are safe only when serialized:
\* when one call runs to its end before the other starts, the outcome is that
\* of the serial order; when their statements interleave, outcomes are
\* reachable that neither serial order gives (C13_Witness): both calls take the
\* first-packet branch, or packets of two SSRCs are both accepted.
C13_SerialWhenNotOverlapped ==
    (BothDone /\ ~race.overlap) => Serializable

\* on a fresh context the packets 65500 and 50 of one stream both take the
\* first-packet branch: no wrap is counted, where the serial orders count
\* one up or one down
C13_Witness ==
    /\ BothDone
    /\ race.overlap
    /\ race.from = Fresh
    /\ race.call[1].p.SSRC = race.call[2].p.SSRC
    /\ race.call[1].p.SequenceNumber = 65500
    /\ race.call[2].p.SequenceNumber = 50
    /\ race.call[1].ret = "true" /\ race.call[2].ret = "true"
    /\ c.rolloverCounter = Zero32
    /\ ~Serializable

-----------------------------------------------------------------------------
(* Properties of SpecFilter.                                               *)

\* the counter block the context last used
LastCounter(ctx) == generateCounter(ctx, ctx.lastSequenceNumber)

\* C18: for a context bound to a non-zero SSRC, the run over all packets and
\* the run over the same packets without those of other SSRCs have, after each
\* accepted packet, the same rolloverCounter, lastSequenceNumber and counter
\* block (and the packet is accepted in both).
C18_RejectedLeaveNoTrace ==
    ret = "true" =>
        /\ shadow.ret = "true"
        /\ c.rolloverCounter = shadow.c.rolloverCounter
        /\ c.lastSequenceNumber = shadow.c.lastSequenceNumber
        /\ LastCounter(c) = LastCounter(shadow.c)

\* a late packet accepted after a packet of another stream was refused: the
\* wrap is taken back in both runs
C18_Witness ==
    /\ ret = "true"
    /\ shadow.removed
    /\ firstSSRC = <<0, 1000>>
    /\ c.lastSequenceNumber = 65530
    /\ c.rolloverCounter = <<65535, 65535>>
    /\ shadow.c.rolloverCounter = <<65535, 65535>>

-----------------------------------------------------------------------------
(* Properties of SpecOnce.                                                 *)

\* C19: when consecutive packets are at most 100 apart in true index and no
\* packet is delivered twice, every packet is accepted and its counter block
\* differs from the counter block of every packet accepted before it.
C19_CounterNeverReused ==
    idx # -1 =>
        /\ ret = "true"
        /\ \A j \in DOMAIN used : j # idx => used[j] # used[idx]

\* a packet and the packet 65536 later, with the same sequence number 100, both
\* accepted in one run
C19_Witness ==
    /\ ret = "true"
    /\ idx = 65636
    /\ 100 \in DOMAIN used
    /\ c.lastSequenceNumber = 100
    /\ used[100] # used[65636]

====
